---- MODULE Spec2Model ----
(***************************************************************************)
(* A model of NetworkVisualization (src/D3js_Project/script.js): the graph *)
(* preprocessing, the degree filter and display modes acting on the bound  *)
(* .node/.link elements, the highlight (focus) state, the d3 force         *)
(* simulation's cooling state, the drag handlers and the layout import.    *)
(*                                                                         *)
(* Node objects are identified by their id, link objects of this.data by   *)
(* their index in this.data.links (two links joining the same pair are two *)
(* objects).  NoNode and NoCoord stand for JavaScript null.                *)
(***************************************************************************)
EXTENDS Integers, Sequences, FiniteSets, TLC

VARIABLES
    pc,                 \* "loading" until init() has run, then "ready"
    maxNodes,           \* this.config.maxNodes
    rawData,            \* the parsed data/facebook_graph.json
    data,               \* this.data: nodes, links, and the nodes' degree and neighbors
    pos,                \* per node: x, y, fx, fy
    filteredData,       \* this.filteredData: nodes (ids), links (indices into data.links)
    nodeElems,          \* the .node elements in document order: bound datum and classes
    linkElems,          \* the .link elements in document order: bound datum and classes
    currentHighlighted, \* this.currentHighlighted
    detailPanel,        \* #detailPanel: its active class and the node #detailContent shows
    searchInput,        \* value of #searchInput
    degreeValue,        \* text of #degreeValue, the last slider value
    zoomTransform,      \* the zoom transform of the svg
    stats,              \* #totalNodes and #totalLinks
    simNodes,           \* simulation.nodes()
    simLinks,           \* simulation.force("link").links()
    alpha,              \* simulation.alpha(), in units of 1/AlphaScale
    alphaTarget,        \* simulation.alphaTarget(), in units of 1/AlphaScale
    running,            \* whether the simulation's timer is running
    isPaused,           \* this.isPaused
    gestures,           \* the active drag gestures: pointer identifier -> dragged node
    outcome             \* what the last handler reported: "ok", an alert, or "throw"

vars == <<pc, maxNodes, rawData, data, pos, filteredData, nodeElems, linkElems,
          currentHighlighted, detailPanel, searchInput, degreeValue, zoomTransform,
          stats, simNodes, simLinks, alpha, alphaTarget, running, isPaused,
          gestures, outcome>>

loadVars == <<pc, maxNodes, rawData, data>>
domVars  == <<nodeElems, linkElems>>
focusVars == <<currentHighlighted, detailPanel, searchInput, zoomTransform>>
filterVars == <<filteredData, degreeValue, stats, simNodes, simLinks>>
coolVars == <<alpha, alphaTarget, running>>

\* null, where a node object is expected (ids are positive)
NoNode == 0
\* null or undefined, where a coordinate is expected (coordinates are not negative)
NoCoord == -1

(***************************************************************************)
(* Bounds of the model.                                                    *)
(***************************************************************************)
\* preprocessData is tried with this.config.maxNodes from 0 to PreMaxNodes
PreMaxNodes == 2
\* on raw graphs of up to PreMaxNodes + 1 nodes and up to MaxRawLinks links
MaxRawLinks == 2
\* the interactive specifications load graphs of up to UiNodes nodes
UiNodes == 3
\* the simulation specifications load graphs of up to SimNodes nodes
SimNodes == 1
\* coordinates are 0..MaxCoord
MaxCoord == 1
\* pointer identifiers of simultaneous drag gestures are 1..MaxGestures
MaxGestures == 2
\* an imported layout lists up to MaxLayoutEntries node entries
MaxLayoutEntries == 2
\* a drag specification loads graphs of up to DragNodes nodes
DragNodes == 2

Coord == 0..MaxCoord

(***************************************************************************)
(* Sequence helpers.                                                       *)
(***************************************************************************)
Range(s) == {s[i] : i \in DOMAIN s}

Front(s) == SubSeq(s, 1, Len(s) - 1)

Last(s) == s[Len(s)]

\* Array.prototype.slice(0, n)
Slice(s, n) == SubSeq(s, 1, IF n < Len(s) THEN n ELSE Len(s))

\* all sequences over S of length at most n
SeqsUpTo(S, n) == UNION {[1..k -> S] : k \in 0..n}

(***************************************************************************)
(* preprocessData                                                          *)
(***************************************************************************)
\* nodeDegrees.get(id) || 0 : every link adds one for its source and one for its target
nodeDegrees(links, id) ==
    Cardinality({i \in DOMAIN links : links[i].source = id})
    + Cardinality({i \in DOMAIN links : links[i].target = id})

\* mutant: the comparator is strict the wrong way round, equal degrees swap
RECURSIVE InsertByDegree_Unstable(_, _, _)
InsertByDegree_Unstable(sorted, n, links) ==
    IF sorted = <<>> THEN <<n>>
    ELSE IF nodeDegrees(links, Head(sorted)) > nodeDegrees(links, n)
         THEN <<Head(sorted)>> \o InsertByDegree_Unstable(Tail(sorted), n, links)
         ELSE <<n>> \o sorted

\* one step of the stable sort with comparator (a, b) => b.degree - a.degree:
\* n, which came after every element of sorted, goes behind all of degree >= its own
RECURSIVE InsertByDegree(_, _, _)
InsertByDegree(sorted, n, links) ==
    IF sorted = <<>> THEN <<n>>
    ELSE IF nodeDegrees(links, Head(sorted)) >= nodeDegrees(links, n)
         THEN <<Head(sorted)>> \o InsertByDegree(Tail(sorted), n, links)
         ELSE <<n>> \o sorted

\* nodes.map(...).sort((a, b) => b.degree - a.degree)
RECURSIVE SortByDegree(_, _)
SortByDegree(nodes, links) ==
    IF nodes = <<>> THEN <<>>
    ELSE InsertByDegree(SortByDegree(Front(nodes), links), Last(nodes), links)

\* lines 66-84: the nodes and links kept when there are more than max nodes
Truncate(raw, max) ==
    IF Len(raw.nodes) > max
    THEN LET sortedNodes == Slice(SortByDegree(raw.nodes, raw.links), max)
             selectedNodeIds == Range(sortedNodes)
             Selected(link) == link.source \in selectedNodeIds
                               /\ link.target \in selectedNodeIds
         IN  [nodes |-> sortedNodes, links |-> SelectSeq(raw.links, Selected)]
    ELSE [nodes |-> raw.nodes, links |-> raw.links]

\* mutant: the degree is counted once per link, not once per end
AddLink_OncePerLink(acc, link) ==
    IF link.source \in DOMAIN acc.degree /\ link.target \in DOMAIN acc.degree
    THEN LET s == link.source
             t == link.target
             nb1 == [acc.neighbors EXCEPT ![s] = @ \cup {t}]
             nb2 == [nb1 EXCEPT ![t] = @ \cup {s}]
             dg == [n \in DOMAIN acc.degree |->
                       IF n \in {s, t} THEN acc.degree[n] + 1 ELSE acc.degree[n]]
         IN  [degree |-> dg, neighbors |-> nb2,
              links |-> Append(acc.links, [source |-> s, target |-> t])]
    ELSE acc

\* lines 103-119: one link of links.map(...): both ends looked up in nodeById; when
\* both exist each joins the other's neighbors and each degree goes up by one
AddLink(acc, link) ==
    IF link.source \in DOMAIN acc.degree /\ link.target \in DOMAIN acc.degree
    THEN LET s == link.source
             t == link.target
             nb1 == [acc.neighbors EXCEPT ![s] = @ \cup {t}]
             nb2 == [nb1 EXCEPT ![t] = @ \cup {s}]
             dg1 == [acc.degree EXCEPT ![s] = @ + 1]
             dg2 == [dg1 EXCEPT ![t] = @ + 1]
         IN  [degree |-> dg2, neighbors |-> nb2,
              links |-> Append(acc.links, [source |-> s, target |-> t])]
    ELSE acc

\* links.map(...).filter(Boolean), left to right
RECURSIVE ProcessLinks(_, _)
ProcessLinks(links, acc) ==
    IF links = <<>> THEN acc
    ELSE ProcessLinks(Tail(links), AddLink(acc, Head(links)))

\* preprocessData(rawData) with this.config.maxNodes = max
preprocessData(raw, max) ==
    LET kept == Truncate(raw, max)
        ids == Range(kept.nodes)
        start == [degree |-> [n \in ids |-> 0],
                  neighbors |-> [n \in ids |-> {}],
                  links |-> <<>>]
        done == ProcessLinks(kept.links, start)
    IN  [nodes |-> kept.nodes, links |-> done.links,
         degree |-> done.degree, neighbors |-> done.neighbors]

(***************************************************************************)
(* The raw graphs offered: nodes 1..n in input order, links between ids    *)
(* 1..n+1 (id n+1 is on no node: such a link is dropped).                  *)
(***************************************************************************)
RawLinksOver(ids) == [source : ids, target : ids]

RawGraphs(maxN, maxL) ==
    UNION {
        {[nodes |-> [i \in 1..n |-> i], links |-> ls] :
            ls \in SeqsUpTo(RawLinksOver(1..(n + 1)), maxL)}
        : n \in 0..maxN}

\* simple graphs: every link between two different nodes, lower id first, no pair twice
RECURSIVE SeqOfSet(_)
SeqOfSet(S) ==
    IF S = {} THEN <<>>
    ELSE LET m == CHOOSE p \in S : \A q \in S : p[1] < q[1] \/ (p[1] = q[1] /\ p[2] <= q[2])
         IN  <<[source |-> m[1], target |-> m[2]]>> \o SeqOfSet(S \ {m})

SimpleGraphs(maxN) ==
    UNION {
        {[nodes |-> [i \in 1..n |-> i], links |-> SeqOfSet(E)] :
            E \in SUBSET {p \in (1..n) \X (1..n) : p[1] < p[2]}}
        : n \in 0..maxN}

(***************************************************************************)
(* Numbers and strings.                                                    *)
(***************************************************************************)
\* alpha is kept in fixed point: AlphaScale units make 1.0
AlphaScale == 5000
\* this.config.simulationAlpha, 0.3: alpha(...) in startSimulation
simulationAlpha == (3 * AlphaScale) \div 10
\* this.config.simulationDecay, 0.02, in hundredths: alphaDecay(...) in startSimulation
simulationDecay == 2
\* d3's default alphaMin, 0.001, which startSimulation leaves as it is
alphaMin == AlphaScale \div 1000
\* alphaTarget(0.3) of the drag start handler
dragAlphaTarget == (3 * AlphaScale) \div 10
\* alpha(1) of restartSimulation and updateVisualization
restartAlpha == AlphaScale
\* alpha(0.3) of updateForceParameters
parameterAlpha == (3 * AlphaScale) \div 10
\* alpha(0.1) of applyLayout
layoutAlpha == AlphaScale \div 10

Digits == <<"0", "1", "2", "3", "4", "5", "6", "7", "8", "9">>

\* Number.prototype.toString() of a non-negative integer
RECURSIVE toString(_)
toString(n) ==
    IF n < 10 THEN Digits[n + 1]
    ELSE toString(n \div 10) \o Digits[(n % 10) + 1]

\* ToNumber of the string a range input yields (a canonical decimal numeral)
ToNumber(s) == CHOOSE n \in 0..99 : toString(n) = s

(***************************************************************************)
(* The .node and .link elements.                                           *)
(***************************************************************************)
\* enter.append("circle").attr("class", "node")....call(this.drag()): a new element
\* bound to node d, with the drag behaviour inst attached
NewNodeElem(d, inst) ==
    [d |-> d, highlighted |-> FALSE, neighbor |-> FALSE, hidden |-> FALSE, drag |-> inst]

\* enter.append("line").attr("class", "link"): a new element bound to link d
NewLinkElem(d) == [d |-> d, highlighted |-> FALSE, hidden |-> FALSE]

\* selectAll(".node").data(nodes).join(...): no key, so the i-th element is re-bound
\* to the i-th datum, elements are appended for the data beyond, the others removed
JoinNodes(elems, nodes, inst) ==
    [i \in 1..Len(nodes) |->
        IF i <= Len(elems) THEN [elems[i] EXCEPT !.d = nodes[i]]
        ELSE NewNodeElem(nodes[i], inst)]

\* selectAll(".link").data(links).join(...)
JoinLinks(elems, links) ==
    [i \in 1..Len(links) |->
        IF i <= Len(elems) THEN [elems[i] EXCEPT !.d = links[i]]
        ELSE NewLinkElem(links[i])]

\* every call of this.drag() makes a new d3.drag() behaviour with its own count of
\* active gestures; it is named by the least number no element and no gesture uses
NewDragInst(elems, gs) ==
    CHOOSE k \in 1..(Len(elems) + Cardinality(DOMAIN gs) + 1) :
        /\ \A i \in DOMAIN elems : elems[i].drag # k
        /\ \A g \in DOMAIN gs : gs[g].inst # k
        /\ \A j \in 1..(k - 1) :
              \/ \E i \in DOMAIN elems : elems[i].drag = j
              \/ \E g \in DOMAIN gs : gs[g].inst = j

\* #totalNodes and #totalLinks as updateStatistics writes them
Statistics(fd) == [totalNodes |-> Len(fd.nodes), totalLinks |-> Len(fd.links)]

NoGesture == [node |-> NoNode, inst |-> 0]

(***************************************************************************)
(* Construction and init().                                                *)
(***************************************************************************)
EmptyGraph == [nodes |-> <<>>, links |-> <<>>, degree |-> <<>>, neighbors |-> <<>>]

\* the state the constructor leaves, with the file init() is about to fetch
Constructed(graphs, limits, gids) ==
    /\ pc = "loading"
    /\ maxNodes \in limits
    /\ rawData \in graphs
    /\ data = EmptyGraph
    /\ pos = <<>>
    /\ filteredData = [nodes |-> <<>>, links |-> <<>>]
    /\ nodeElems = <<>>
    /\ linkElems = <<>>
    /\ currentHighlighted = NoNode
    /\ detailPanel = [active |-> FALSE, node |-> NoNode]
    /\ searchInput = ""
    /\ degreeValue = ""
    /\ zoomTransform = [k |-> 1, cx |-> NoCoord, cy |-> NoCoord]
    /\ stats = [totalNodes |-> 0, totalLinks |-> 0]
    /\ simNodes = <<>>
    /\ simLinks = <<>>
    /\ alpha = 0
    /\ alphaTarget = 0
    /\ running = FALSE
    /\ isPaused = FALSE
    /\ gestures = [g \in gids |-> NoGesture]
    /\ outcome = "ok"

\* init(): loadData (preprocessData, filteredData = {...data}), createLinks,
\* createNodes, startSimulation, updateStatistics.  x and y are Math.random() draws.
Load(coords) ==
    /\ pc = "loading"
    /\ pc' = "ready"
    /\ maxNodes' = maxNodes
    /\ rawData' = rawData
    /\ data' = preprocessData(rawData, maxNodes)
    /\ pos' \in [Range(data'.nodes) ->
                    [x : coords, y : coords, fx : {NoCoord}, fy : {NoCoord}]]
    /\ filteredData' = [nodes |-> data'.nodes,
                        links |-> [i \in 1..Len(data'.links) |-> i]]
    /\ linkElems' = JoinLinks(<<>>, filteredData'.links)
    /\ nodeElems' = JoinNodes(<<>>, filteredData'.nodes, NewDragInst(<<>>, gestures))
    /\ simNodes' = filteredData'.nodes
    /\ simLinks' = filteredData'.links
    /\ alpha' = simulationAlpha
    /\ alphaTarget' = 0
    /\ running' = TRUE
    /\ stats' = Statistics(filteredData')
    /\ outcome' = "ok"
    /\ UNCHANGED <<focusVars, degreeValue, isPaused, gestures>>

(***************************************************************************)
(* Preprocessing alone: every raw graph within the bounds is loaded.       *)
(***************************************************************************)
InitPre == Constructed(RawGraphs(PreMaxNodes + 1, MaxRawLinks), 0..PreMaxNodes, {})

NextPre == Load({0})

SpecPre == InitPre /\ [][NextPre]_vars

(***************************************************************************)
(* Claims about preprocessData, checked under SpecPre.                     *)
(***************************************************************************)
\* the place of a node in the raw node list
RawIndex(id) == CHOOSE i \in DOMAIN rawData.nodes : rawData.nodes[i] = id

\* the ends of links that lie on node id, in a list of links
LinkEnds(links, id) ==
    {p \in (DOMAIN links) \X {"source", "target"} : links[p[1]][p[2]] = id}

\* the degree of a node in the raw link list: the number of link ends on it
RawLinkDegree(id) == Cardinality(LinkEnds(rawData.links, id))

\* a comes before b when ordered by raw degree descending, input order on a tie
RanksBefore(a, b) ==
    \/ RawLinkDegree(a) > RawLinkDegree(b)
    \/ RawLinkDegree(a) = RawLinkDegree(b) /\ RawIndex(a) < RawIndex(b)

\* C1: a raw graph of more than maxNodes nodes yields exactly maxNodes nodes, the
\* first maxNodes in the order by raw-link degree descending with ties in input
\* order, and every returned link has both its ends among the returned nodes
C1_Truncation ==
    (pc = "ready" /\ Len(rawData.nodes) > maxNodes) =>
        /\ Len(data.nodes) = maxNodes
        /\ Range(data.nodes) \subseteq Range(rawData.nodes)
        /\ \A i, j \in DOMAIN data.nodes :
              i < j => RanksBefore(data.nodes[i], data.nodes[j])
        /\ \A m \in Range(rawData.nodes) \ Range(data.nodes) :
              \A k \in Range(data.nodes) : RanksBefore(k, m)
        /\ \A i \in DOMAIN data.links :
              /\ data.links[i].source \in Range(data.nodes)
              /\ data.links[i].target \in Range(data.nodes)

\* a truncation that reorders the nodes, breaks a tie between a kept and a
\* discarded node, keeps a link and drops a link
C1_Witness ==
    /\ pc = "ready"
    /\ Len(rawData.nodes) > maxNodes
    /\ data.nodes # SubSeq(rawData.nodes, 1, maxNodes)
    /\ \E k \in Range(data.nodes) : \E m \in Range(rawData.nodes) \ Range(data.nodes) :
          RawLinkDegree(k) = RawLinkDegree(m)
    /\ Len(data.links) > 0
    /\ Len(data.links) < Len(rawData.links)
    /\ \E i \in DOMAIN rawData.links : rawData.links[i].source \in Range(rawData.nodes) \ Range(data.nodes)

\* the retained links incident to node n
IncidentLinks(n) ==
    {i \in DOMAIN data.links : data.links[i].source = n \/ data.links[i].target = n}

\* no two raw links have the same source and the same target
NoDuplicatePairs(links) ==
    \A i, j \in DOMAIN links :
        i # j => <<links[i].source, links[i].target>> # <<links[j].source, links[j].target>>

\* C2 as claimed: degree is the number of retained links incident to the node, and
\* without a duplicate source/target pair the neighbor set has degree elements
C2_AsClaimed ==
    pc = "ready" =>
        \A n \in Range(data.nodes) :
            /\ data.degree[n] = Cardinality(IncidentLinks(n))
            /\ NoDuplicatePairs(rawData.links) =>
                  Cardinality(data.neighbors[n]) = data.degree[n]

\* no raw link joins a node to itself and no two raw links join the same two
\* nodes, in either direction
SimpleInput(links) ==
    /\ \A i \in DOMAIN links : links[i].source # links[i].target
    /\ \A i, j \in DOMAIN links :
          i # j => {links[i].source, links[i].target} # {links[j].source, links[j].target}

\* C2, amended: degree is the number of retained link ends on the node (a link from
\* a node to itself counts twice), and the neighbor set has degree elements when the
\* input has no self-link and no two links joining the same two nodes in either
\* direction
C2_Degree ==
    pc = "ready" =>
        \A n \in Range(data.nodes) :
            /\ data.degree[n] = Cardinality(LinkEnds(data.links, n))
            /\ SimpleInput(rawData.links) =>
                  Cardinality(data.neighbors[n]) = data.degree[n]

\* a truncated simple graph in which a node has two neighbors and a link was dropped
C2_Witness ==
    /\ pc = "ready"
    /\ SimpleInput(rawData.links)
    /\ Len(rawData.nodes) > maxNodes
    /\ Len(data.links) < Len(rawData.links)
    /\ \E n \in Range(data.nodes) :
          data.degree[n] >= 1 /\ Cardinality(data.neighbors[n]) = data.degree[n]

(***************************************************************************)
(* The degree filter and updateVisualization.                              *)
(***************************************************************************)
\* mutant: the filter is applied to what is visible now, not to the full graph
DegreeFilter_OfFiltered(value) ==
    LET maxDegree == ToNumber(value)
        NodeShown(d) == data.degree[d] <= maxDegree
        LinkShown(l) == /\ data.degree[data.links[l].source] <= maxDegree
                        /\ data.degree[data.links[l].target] <= maxDegree
    IN  [nodes |-> SelectSeq(filteredData.nodes, NodeShown),
         links |-> SelectSeq(filteredData.links, LinkShown)]

\* mutant: a link is kept when its source alone passes
DegreeFilter_SourceOnly(value) ==
    LET maxDegree == ToNumber(value)
        NodeShown(d) == data.degree[d] <= maxDegree
        LinkShown(l) == data.degree[data.links[l].source] <= maxDegree
    IN  [nodes |-> SelectSeq(data.nodes, NodeShown),
         links |-> SelectSeq([i \in 1..Len(data.links) |-> i], LinkShown)]

\* lines 369-374: the nodes of this.data of degree <= maxDegree and the links of
\* this.data whose source and target both have degree <= maxDegree
DegreeFilter(value) ==
    LET maxDegree == ToNumber(value)
        NodeShown(d) == data.degree[d] <= maxDegree
        LinkShown(l) == /\ data.degree[data.links[l].source] <= maxDegree
                        /\ data.degree[data.links[l].target] <= maxDegree
    IN  [nodes |-> SelectSeq(data.nodes, NodeShown),
         links |-> SelectSeq([i \in 1..Len(data.links) |-> i], LinkShown)]

\* mutant: the elements are re-joined but the simulation is left as it was
UpdateVisualization_NoRestart(fd) ==
    /\ filteredData' = fd
    /\ linkElems' = JoinLinks(linkElems, fd.links)
    /\ nodeElems' = JoinNodes(nodeElems, fd.nodes, NewDragInst(nodeElems, gestures))
    /\ stats' = Statistics(fd)
    /\ UNCHANGED <<simNodes, simLinks, alpha, running>>

\* updateVisualization() once this.filteredData is fd: both joins, the simulation
\* given the new arrays and restarted at alpha 1, the statistics rewritten
UpdateVisualization(fd) ==
    /\ filteredData' = fd
    /\ linkElems' = JoinLinks(linkElems, fd.links)
    /\ nodeElems' = JoinNodes(nodeElems, fd.nodes, NewDragInst(nodeElems, gestures))
    /\ simNodes' = fd.nodes
    /\ simLinks' = fd.links
    /\ alpha' = restartAlpha
    /\ running' = TRUE
    /\ stats' = Statistics(fd)

\* the input handler of #degreeRange: #degreeValue shows the value, filterByDegree(value)
FilterByDegree(value) ==
    /\ pc = "ready"
    /\ degreeValue' = value
    /\ UpdateVisualization(DegreeFilter(value))
    /\ outcome' = "ok"
    /\ UNCHANGED <<loadVars, pos, focusVars, alphaTarget, isPaused, gestures>>

(***************************************************************************)
(* Display modes.                                                          *)
(***************************************************************************)
SetHidden(elems, Hide(_)) ==
    [i \in DOMAIN elems |-> [elems[i] EXCEPT !.hidden = Hide(elems[i].d)]]

\* showAllNodes
ShowAllNodes ==
    /\ pc = "ready"
    /\ nodeElems' = SetHidden(nodeElems, LAMBDA d : FALSE)
    /\ linkElems' = SetHidden(linkElems, LAMBDA l : FALSE)
    /\ outcome' = "ok"
    /\ UNCHANGED <<loadVars, pos, focusVars, filterVars, coolVars, isPaused, gestures>>

\* showNeighborsOnly: nothing without a highlighted node; else a node is hidden
\* unless it is the highlighted node or one of its neighbors, a link unless one of
\* its ends is the highlighted node
ShowNeighborsOnly ==
    /\ pc = "ready"
    /\ IF currentHighlighted = NoNode
       THEN UNCHANGED domVars
       ELSE LET h == currentHighlighted
                HideNode(d) == d # h /\ d \notin data.neighbors[h]
                HideLink(l) == data.links[l].source # h /\ data.links[l].target # h
            IN  /\ nodeElems' = SetHidden(nodeElems, HideNode)
                /\ linkElems' = SetHidden(linkElems, HideLink)
    /\ outcome' = "ok"
    /\ UNCHANGED <<loadVars, pos, focusVars, filterVars, coolVars, isPaused, gestures>>

\* showHighlightedOnly: the arrow functions read d3.select(this) with this the
\* NetworkVisualization, which has no classList and no getAttribute, so classed()
\* throws a TypeError on the first element, before any class is written
ShowHighlightedOnly ==
    /\ pc = "ready"
    /\ outcome' = IF nodeElems = <<>> /\ linkElems = <<>> THEN "ok" ELSE "throw"
    /\ UNCHANGED <<loadVars, pos, domVars, focusVars, filterVars, coolVars, isPaused,
                   gestures>>

\* setDisplayMode(mode), the change handler of #displayMode
SetDisplayMode(mode) ==
    CASE mode = "all" -> ShowAllNodes
      [] mode = "neighbors" -> ShowNeighborsOnly
      [] mode = "highlighted" -> ShowHighlightedOnly

DisplayModes == {"all", "neighbors", "highlighted"}

(***************************************************************************)
(* Highlight, search and the detail panel.                                 *)
(***************************************************************************)
\* mutant: clearHighlight forgets the neighbor class
ClearNodeMarks_KeepNeighbor(elems) ==
    [i \in DOMAIN elems |-> [elems[i] EXCEPT !.highlighted = FALSE]]

\* clearHighlight on the node elements
ClearNodeMarks(elems) ==
    [i \in DOMAIN elems |-> [elems[i] EXCEPT !.highlighted = FALSE, !.neighbor = FALSE]]

\* clearHighlight on the link elements
ClearLinkMarks(elems) ==
    [i \in DOMAIN elems |-> [elems[i] EXCEPT !.highlighted = FALSE]]

\* highlightNode(node) on the node elements, after clearHighlight
MarkNodes(elems, node) ==
    [i \in DOMAIN elems |->
        [elems[i] EXCEPT
            !.highlighted = @ \/ elems[i].d = node,
            !.neighbor = @ \/ elems[i].d \in data.neighbors[node]]]

\* highlightNode(node) on the link elements, after clearHighlight
MarkLinks(elems, node) ==
    [i \in DOMAIN elems |->
        [elems[i] EXCEPT
            !.highlighted = @ \/ data.links[elems[i].d].source = node
                              \/ data.links[elems[i].d].target = node]]

\* showNodeDetail(node): #detailContent shows the node, #detailPanel is active
ShowNodeDetailOf(node) == [active |-> TRUE, node |-> node]

\* highlightNode(node)
HighlightNode(node) ==
    /\ nodeElems' = MarkNodes(ClearNodeMarks(nodeElems), node)
    /\ linkElems' = MarkLinks(ClearLinkMarks(linkElems), node)
    /\ currentHighlighted' = node
    /\ detailPanel' = ShowNodeDetailOf(node)

\* clearHighlight()
ClearHighlight ==
    /\ nodeElems' = ClearNodeMarks(nodeElems)
    /\ linkElems' = ClearLinkMarks(linkElems)
    /\ currentHighlighted' = NoNode

\* centerOnNode(node): the zoom is set to scale 2 with the node's place in the middle
CenterOn(node) == [k |-> 2, cx |-> pos[node].x, cy |-> pos[node].y]

\* mutant: the node is looked up in the full graph
SearchPool_Full == data.nodes

\* the array searchNode looks the id up in
SearchPool == filteredData.nodes

\* Array.prototype.find with d => d.id.toString() === searchId: the first match, or none
FindById(nodes, searchId) ==
    LET hits == SelectSeq(nodes, LAMBDA d : toString(d) = searchId)
    IN  IF hits = <<>> THEN NoNode ELSE Head(hits)

\* the user has typed text into #searchInput and clicks #searchBtn (or presses
\* Enter): searchNode() does nothing on an empty input, highlights and centres a
\* node it finds, and otherwise raises the not-found alert
SearchNode(text) ==
    /\ pc = "ready"
    /\ searchInput' = text
    /\ LET node == FindById(SearchPool, text)
       IN  IF text = ""
           THEN /\ outcome' = "ok"
                /\ UNCHANGED <<domVars, currentHighlighted, detailPanel, zoomTransform>>
           ELSE IF node # NoNode
           THEN /\ HighlightNode(node)
                /\ zoomTransform' = CenterOn(node)
                /\ outcome' = "ok"
           ELSE /\ outcome' = "alert: not found"
                /\ UNCHANGED <<domVars, currentHighlighted, detailPanel, zoomTransform>>
    /\ UNCHANGED <<loadVars, pos, filterVars, coolVars, isPaused, gestures>>

\* clearSearch()
ClearSearch ==
    /\ pc = "ready"
    /\ searchInput' = ""
    /\ ClearHighlight
    /\ outcome' = "ok"
    /\ UNCHANGED <<loadVars, pos, detailPanel, zoomTransform, filterVars, coolVars,
                   isPaused, gestures>>

\* a click on the i-th node element: showNodeDetail(d)
ClickNode(i) ==
    /\ pc = "ready"
    /\ i \in DOMAIN nodeElems
    /\ ~nodeElems[i].hidden
    /\ detailPanel' = ShowNodeDetailOf(nodeElems[i].d)
    /\ outcome' = "ok"
    /\ UNCHANGED <<loadVars, pos, domVars, currentHighlighted, searchInput, zoomTransform,
                   filterVars, coolVars, isPaused, gestures>>

\* a click on the tag of neighbor n in the open detail panel:
\* network.highlightNode(network.data.nodes.find(d => d.id === n))
ClickNeighborTag(n) ==
    /\ pc = "ready"
    /\ detailPanel.active
    /\ detailPanel.node # NoNode
    /\ n \in data.neighbors[detailPanel.node]
    /\ HighlightNode(n)
    /\ outcome' = "ok"
    /\ UNCHANGED <<loadVars, pos, searchInput, zoomTransform, filterVars, coolVars,
                   isPaused, gestures>>

\* closeDetailPanel()
CloseDetailPanel ==
    /\ pc = "ready"
    /\ detailPanel' = [detailPanel EXCEPT !.active = FALSE]
    /\ outcome' = "ok"
    /\ UNCHANGED <<loadVars, pos, domVars, currentHighlighted, searchInput, zoomTransform,
                   filterVars, coolVars, isPaused, gestures>>

(***************************************************************************)
(* Layout controls.                                                        *)
(***************************************************************************)
\* restartSimulation()
RestartSimulation ==
    /\ pc = "ready"
    /\ alpha' = restartAlpha
    /\ running' = TRUE
    /\ outcome' = "ok"
    /\ UNCHANGED <<loadVars, pos, domVars, focusVars, filterVars, alphaTarget, isPaused,
                   gestures>>

\* togglePause(): simulation.stop() when now paused, simulation.restart() otherwise
TogglePause ==
    /\ pc = "ready"
    /\ isPaused' = ~isPaused
    /\ running' = ~isPaused'
    /\ outcome' = "ok"
    /\ UNCHANGED <<loadVars, pos, domVars, focusVars, filterVars, alpha, alphaTarget,
                   gestures>>

\* updateForceParameters(): the charge and link forces are replaced (the link
\* force over this.filteredData.links), alpha(0.3).restart()
UpdateForceParameters ==
    /\ pc = "ready"
    /\ simLinks' = filteredData.links
    /\ alpha' = parameterAlpha
    /\ running' = TRUE
    /\ outcome' = "ok"
    /\ UNCHANGED <<loadVars, pos, domVars, focusVars, filteredData, degreeValue, stats,
                   simNodes, alphaTarget, isPaused, gestures>>

\* handleResize(): a new center force, restart()
HandleResize ==
    /\ pc = "ready"
    /\ running' = TRUE
    /\ outcome' = "ok"
    /\ UNCHANGED <<loadVars, pos, domVars, focusVars, filterVars, alpha, alphaTarget,
                   isPaused, gestures>>

(***************************************************************************)
(* The interactive specifications, on every simple graph of up to UiNodes  *)
(* nodes.  Spec: the degree filter and the display modes, with search to   *)
(* set the highlighted node.  SpecFocus: search, highlight and the detail  *)
(* panel, with the degree filter.                                          *)
(***************************************************************************)
\* this.config.maxNodes as the constructor sets it
configMaxNodes == 2000

\* the values the degree slider is moved to
DegreeInputs == {toString(d) : d \in 0..UiNodes}

\* the texts typed into the search box: none, the ids, an id on no node, a padded id
SearchTexts == {""} \cup {toString(i) : i \in 1..(UiNodes + 1)} \cup {"01"}

\* the five-node graph with links (1,2), (1,3), (1,4), (2,3)
ExampleGraph ==
    [nodes |-> <<1, 2, 3, 4, 5>>,
     links |-> <<[source |-> 1, target |-> 2], [source |-> 1, target |-> 3],
                 [source |-> 1, target |-> 4], [source |-> 2, target |-> 3]>>]

Init == Constructed(SimpleGraphs(UiNodes) \cup {ExampleGraph}, {configMaxNodes}, {})

Next ==
    \/ Load({0})
    \/ \E value \in DegreeInputs : FilterByDegree(value)
    \/ \E mode \in DisplayModes : SetDisplayMode(mode)
    \/ \E text \in SearchTexts : SearchNode(text)
    \/ ClearSearch
    \/ TogglePause

Spec == Init /\ [][Next]_vars

NextFocus ==
    \/ Load({0})
    \/ \E value \in DegreeInputs : FilterByDegree(value)
    \/ \E text \in SearchTexts : SearchNode(text)
    \/ ClearSearch
    \/ \E i \in DOMAIN nodeElems : ClickNode(i)
    \/ \E n \in Range(data.nodes) : ClickNeighborTag(n)
    \/ CloseDetailPanel

SpecFocus == Init /\ [][NextFocus]_vars

(***************************************************************************)
(* Claims about the filter and the display modes, checked under Spec.      *)
(***************************************************************************)
\* the full-graph nodes of degree at most d
NodesUpTo(d) == {n \in Range(data.nodes) : data.degree[n] <= d}

\* the full-graph links with both ends in N
LinksWithin(N) ==
    {l \in DOMAIN data.links : data.links[l].source \in N /\ data.links[l].target \in N}

\* after filterByDegree(d) the visible nodes (this.filteredData.nodes, which are
\* the data of the .node elements) are the full-graph nodes of degree <= d and the
\* visible links (this.filteredData.links, the data of the .link elements) the
\* full-graph links between them
C3_Exact ==
    (pc = "ready" /\ degreeValue # "") =>
        LET d == ToNumber(degreeValue)
        IN  /\ Range(filteredData.nodes) = NodesUpTo(d)
            /\ Range(filteredData.links) = LinksWithin(NodesUpTo(d))
            /\ {nodeElems[i].d : i \in DOMAIN nodeElems} = NodesUpTo(d)
            /\ {linkElems[i].d : i \in DOMAIN linkElems} = LinksWithin(NodesUpTo(d))

\* a filter step to a larger threshold only adds nodes and links, one to a smaller
\* threshold only removes them
C3_MonotoneStep ==
    \A value \in DegreeInputs :
        (FilterByDegree(value) /\ degreeValue # "") =>
            /\ ToNumber(degreeValue) <= ToNumber(value) =>
                  /\ Range(filteredData.nodes) \subseteq Range(filteredData'.nodes)
                  /\ Range(filteredData.links) \subseteq Range(filteredData'.links)
            /\ ToNumber(value) <= ToNumber(degreeValue) =>
                  /\ Range(filteredData'.nodes) \subseteq Range(filteredData.nodes)
                  /\ Range(filteredData'.links) \subseteq Range(filteredData.links)

VisibleNodes == {nodeElems[i].d : i \in {j \in DOMAIN nodeElems : ~nodeElems[j].hidden}}

VisibleLinks == {linkElems[i].d : i \in {j \in DOMAIN linkElems : ~linkElems[j].hidden}}

\* C6 as claimed: the visible nodes and links are subsets of the full graph and a
\* link is visible if and only if both its ends are
C6_AsClaimed ==
    pc = "ready" =>
        /\ VisibleNodes \subseteq Range(data.nodes)
        /\ VisibleLinks \subseteq DOMAIN data.links
        /\ \A l \in DOMAIN data.links :
              l \in VisibleLinks <=>
                  /\ data.links[l].source \in VisibleNodes
                  /\ data.links[l].target \in VisibleNodes

\* the subgraph in this.filteredData lies in the full graph and holds a link exactly
\* when it holds both its ends; what is shown lies in this.filteredData
C6_Subgraph ==
    pc = "ready" =>
        /\ Range(filteredData.nodes) \subseteq Range(data.nodes)
        /\ Range(filteredData.links) \subseteq DOMAIN data.links
        /\ Range(filteredData.links) = LinksWithin(Range(filteredData.nodes))
        /\ VisibleNodes \subseteq Range(filteredData.nodes)
        /\ VisibleLinks \subseteq Range(filteredData.links)

\* a neighbors-mode step with a highlighted node h shows h and its neighbors, and
\* the links with an end on h, among what this.filteredData holds
C6_NeighborsStep ==
    (ShowNeighborsOnly /\ currentHighlighted # NoNode) =>
        LET h == currentHighlighted
        IN  /\ VisibleNodes' = ({h} \cup data.neighbors[h]) \cap Range(filteredData.nodes)
            /\ VisibleLinks' = {l \in Range(filteredData.links) :
                                   data.links[l].source = h \/ data.links[l].target = h}

\* C6, amended: in every state reachable by filterByDegree and display-mode
\* operations the node and link sets of filteredData are subsets of the full graph
\* and hold a link if and only if they hold both its ends, and the shown nodes and
\* links are subsets of them; neighbors mode shows the highlighted node, its
\* neighbors and only the links with an end on the highlighted node
C6_VisibleSubgraph == []C6_Subgraph /\ [][C6_NeighborsStep]_vars

\* the example in neighbors mode around node 1: nodes 1..4 and links (1,2), (1,3),
\* (1,4) are shown, link (2,3) is hidden though both its ends are shown
C6_Witness ==
    /\ pc = "ready"
    /\ rawData = ExampleGraph
    /\ currentHighlighted = 1
    /\ filteredData.nodes = data.nodes
    /\ VisibleNodes = {1, 2, 3, 4}
    /\ VisibleLinks = {1, 2, 3}

C5_Step ==
    /\ \A value \in DegreeInputs :
          FilterByDegree(value) =>
              /\ Range(filteredData'.nodes) = NodesUpTo(ToNumber(value))
              /\ simNodes' = filteredData'.nodes
              /\ simLinks' = filteredData'.links
              /\ alpha' = restartAlpha
              /\ running'
    /\ \A mode \in DisplayModes :
          SetDisplayMode(mode) =>
              UNCHANGED <<filteredData, simNodes, simLinks, alpha, running>>

C4_AsClaimed ==
    [][\A text \in SearchTexts \ {""} :
          SearchNode(text) =>
              LET known == \E n \in Range(data.nodes) : toString(n) = text
              IN  /\ known <=> (currentHighlighted' # NoNode
                                /\ toString(currentHighlighted') = text)
                  /\ (outcome' = "alert: not found") <=> ~known]_vars

\* the state after highlightNode(node) and then clearHighlight()
FocusThenClear(node) ==
    [nodeElems |-> ClearNodeMarks(MarkNodes(ClearNodeMarks(nodeElems), node)),
     linkElems |-> ClearLinkMarks(MarkLinks(ClearLinkMarks(linkElems), node)),
     currentHighlighted |-> NoNode,
     detailPanel |-> ShowNodeDetailOf(node)]

\* C9 as claimed: from a state with no focused node, focusing a node and clearing
\* the focus puts back the focused node, the markers and the detail panel
C9_AsClaimed ==
    (pc = "ready" /\ currentHighlighted = NoNode) =>
        \A node \in Range(data.nodes) :
            /\ FocusThenClear(node).nodeElems = nodeElems
            /\ FocusThenClear(node).linkElems = linkElems
            /\ FocusThenClear(node).currentHighlighted = currentHighlighted
            /\ FocusThenClear(node).detailPanel = detailPanel

\* C9, amended: from any state with no focused node, focusing an existing node and
\* then clearing the focus leaves the focused node and the highlighted and neighbor
\* markers on nodes and links equal to their values before the focus; the detail
\* panel stays open on the node that was focused
C9_FocusRoundTrip ==
    (pc = "ready" /\ currentHighlighted = NoNode) =>
        \A node \in Range(data.nodes) :
            /\ FocusThenClear(node).nodeElems = nodeElems
            /\ FocusThenClear(node).linkElems = linkElems
            /\ FocusThenClear(node).currentHighlighted = currentHighlighted
            /\ FocusThenClear(node).detailPanel = [active |-> TRUE, node |-> node]

\* a node with a neighbor was found by a search and the focus then cleared: no
\* marker is left, the panel still shows a node
C9_Witness ==
    /\ pc = "ready"
    /\ currentHighlighted = NoNode
    /\ zoomTransform.k = 2
    /\ searchInput = ""
    /\ Len(linkElems) > 0
    /\ detailPanel.active
    /\ detailPanel.node # NoNode
    /\ \A i \in DOMAIN nodeElems : ~nodeElems[i].highlighted /\ ~nodeElems[i].neighbor
    /\ \A i \in DOMAIN linkElems : ~linkElems[i].highlighted

(***************************************************************************)
(* The simulation's timer.                                                 *)
(***************************************************************************)
\* alpha += (alphaTarget - alpha) * alphaDecay, in fixed point
Cooled(a, target) == a + ((target - a) * simulationDecay) \div 100

\* mutant: alpha is compared with alphaMin before it is cooled
StopsAfter_OldAlpha(a, target) == a < alphaMin

\* the timer callback stops the timer once alpha has fallen below alphaMin
StopsAfter(a, target) == Cooled(a, target) < alphaMin

\* one firing of the simulation's timer: alpha eases towards alphaTarget, every
\* node of the simulation is moved by the forces (any place within coords) unless
\* it is pinned, in which case x = fx and y = fy, and the timer stops below alphaMin.
\* The fixed point cannot follow alpha below one unit: a timer restarted again and
\* again below alphaMin is not followed once alpha is less than 1/AlphaScale.
Tick(coords) ==
    /\ pc = "ready"
    /\ running
    /\ alpha > 0
    /\ alpha' = Cooled(alpha, alphaTarget)
    /\ \E nx, ny \in [Range(simNodes) -> coords] :
          pos' = [n \in DOMAIN pos |->
                    IF n \in Range(simNodes)
                    THEN [pos[n] EXCEPT
                            !.x = IF pos[n].fx = NoCoord THEN nx[n] ELSE pos[n].fx,
                            !.y = IF pos[n].fy = NoCoord THEN ny[n] ELSE pos[n].fy]
                    ELSE pos[n]]
    /\ running' = ~StopsAfter(alpha, alphaTarget)
    /\ outcome' = "ok"
    /\ UNCHANGED <<loadVars, domVars, focusVars, filterVars, alphaTarget, isPaused,
                   gestures>>

(***************************************************************************)
(* Drag.                                                                   *)
(***************************************************************************)
\* event.active: the gestures of drag behaviour inst in progress
ActiveOf(gs, inst) == Cardinality({h \in DOMAIN gs : gs[h] # NoGesture /\ gs[h].inst = inst})

\* the "start" handler, for pointer g going down on the i-th node element
DragStart(g, i) ==
    /\ pc = "ready"
    /\ gestures[g] = NoGesture
    /\ i \in DOMAIN nodeElems
    /\ LET d == nodeElems[i].d
           inst == nodeElems[i].drag
       IN  /\ IF ActiveOf(gestures, inst) = 0
              THEN alphaTarget' = dragAlphaTarget /\ running' = TRUE
              ELSE UNCHANGED <<alphaTarget, running>>
           /\ pos' = [pos EXCEPT ![d].fx = pos[d].x, ![d].fy = pos[d].y]
           /\ gestures' = [gestures EXCEPT ![g] = [node |-> d, inst |-> inst]]
    /\ outcome' = "ok"
    /\ UNCHANGED <<loadVars, domVars, focusVars, filterVars, alpha, isPaused>>

\* the "drag" handler, for pointer g moving to (ex, ey)
Drag(g, ex, ey) ==
    /\ pc = "ready"
    /\ gestures[g] # NoGesture
    /\ pos' = [pos EXCEPT ![gestures[g].node].fx = ex, ![gestures[g].node].fy = ey]
    /\ outcome' = "ok"
    /\ UNCHANGED <<loadVars, domVars, focusVars, filterVars, coolVars, isPaused, gestures>>

\* mutant: the end handler clears the pin but never relaxes alphaTarget
DragEnd_KeepsWarm(g) ==
    /\ pc = "ready"
    /\ gestures[g] # NoGesture
    /\ gestures' = [gestures EXCEPT ![g] = NoGesture]
    /\ pos' = [pos EXCEPT ![gestures[g].node].fx = NoCoord,
                          ![gestures[g].node].fy = NoCoord]
    /\ outcome' = "ok"
    /\ UNCHANGED <<loadVars, domVars, focusVars, filterVars, alpha, alphaTarget, running,
                   isPaused>>

\* the "end" handler, for pointer g going up
DragEnd(g) ==
    /\ pc = "ready"
    /\ gestures[g] # NoGesture
    /\ gestures' = [gestures EXCEPT ![g] = NoGesture]
    /\ IF ActiveOf(gestures', gestures[g].inst) = 0
       THEN alphaTarget' = 0
       ELSE UNCHANGED alphaTarget
    /\ pos' = [pos EXCEPT ![gestures[g].node].fx = NoCoord,
                          ![gestures[g].node].fy = NoCoord]
    /\ outcome' = "ok"
    /\ UNCHANGED <<loadVars, domVars, focusVars, filterVars, alpha, running, isPaused>>

(***************************************************************************)
(* Layout import.                                                          *)
(***************************************************************************)
\* a null in the list of node entries
NullEntry == [id |-> NoNode, x |-> NoCoord, y |-> NoCoord, fx |-> NoCoord, fy |-> NoCoord]

\* the entries exportLayout writes: a place, and a pin at that place or none
LayoutEntries(ids, coords) ==
    {[id |-> i, x |-> a, y |-> b, fx |-> NoCoord, fy |-> NoCoord] :
        i \in ids, a \in coords, b \in coords}
    \cup {[id |-> i, x |-> a, y |-> b, fx |-> a, fy |-> b] :
        i \in ids, a \in coords, b \in coords}

\* the files offered: text that is no JSON, the JSON null, and objects with or
\* without nodes and links whose node entries are export entries or null
Layouts(ids, coords, n) ==
    {[kind |-> k, hasNodes |-> FALSE, hasLinks |-> FALSE, nodes |-> <<>>] :
        k \in {"unparseable", "null"}}
    \cup {[kind |-> "object", hasNodes |-> FALSE, hasLinks |-> TRUE, nodes |-> <<>>],
          [kind |-> "object", hasNodes |-> TRUE, hasLinks |-> FALSE, nodes |-> <<>>]}
    \cup {[kind |-> "object", hasNodes |-> TRUE, hasLinks |-> TRUE, nodes |-> es] :
            es \in SeqsUpTo(LayoutEntries(ids, coords) \cup {NullEntry}, n) \ {<<>>}}

\* layout.nodes.forEach(...): the entries are applied in order to the nodes of
\* this.filteredData they name; reading .id of a null entry throws, and what was
\* applied before it stays
RECURSIVE ApplyEntries(_, _)
ApplyEntries(entries, p) ==
    IF entries = <<>> THEN [pos |-> p, threw |-> FALSE]
    ELSE LET e == Head(entries)
         IN  IF e = NullEntry THEN [pos |-> p, threw |-> TRUE]
             ELSE IF e.id \in Range(filteredData.nodes)
             THEN ApplyEntries(Tail(entries),
                      [p EXCEPT ![e.id] = [x |-> e.x, y |-> e.y, fx |-> e.fx, fy |-> e.fy]])
             ELSE ApplyEntries(Tail(entries), p)

\* reader.onload of importLayout: JSON.parse and applyLayout inside try, the
\* format alert in catch
ApplyLayout(layout) ==
    /\ pc = "ready"
    /\ IF layout.kind # "object"
       THEN /\ outcome' = "alert: layout format"
            /\ UNCHANGED <<pos, alpha, running>>
       ELSE IF ~(layout.hasNodes /\ layout.hasLinks)
       THEN /\ outcome' = "ok"
            /\ UNCHANGED <<pos, alpha, running>>
       ELSE LET r == ApplyEntries(layout.nodes, pos)
            IN  /\ pos' = r.pos
                /\ IF r.threw
                   THEN /\ outcome' = "alert: layout format"
                        /\ UNCHANGED <<alpha, running>>
                   ELSE /\ outcome' = "ok"
                        /\ alpha' = layoutAlpha
                        /\ running' = TRUE
    /\ UNCHANGED <<loadVars, domVars, focusVars, filterVars, alphaTarget, isPaused,
                   gestures>>

(***************************************************************************)
(* SpecCool: the cooling of the simulation of a graph of up to SimNodes    *)
(* nodes, under ticks, the layout controls, the degree filter and drags    *)
(* by one pointer.                                                         *)
(***************************************************************************)
InitCool == Constructed(SimpleGraphs(SimNodes), {configMaxNodes}, {1})

NextCool ==
    \/ Load(Coord)
    \/ Tick(Coord)
    \/ RestartSimulation
    \/ TogglePause
    \/ UpdateForceParameters
    \/ HandleResize
    \/ \E value \in {toString(0)} : FilterByDegree(value)
    \/ \E i \in DOMAIN nodeElems : DragStart(1, i)
    \/ \E ex, ey \in Coord : Drag(1, ex, ey)
    \/ DragEnd(1)

SpecCool == InitCool /\ [][NextCool]_vars

\* while alphaTarget is 0 a tick lowers alpha; a tick that leaves alpha below
\* alphaMin stops the timer and any other tick leaves it running; and while the
\* timer stays stopped neither alpha nor any node's x or y changes
C7_Step ==
    /\ (Tick(Coord) /\ alphaTarget = 0) => alpha' < alpha
    /\ Tick(Coord) => (running' <=> alpha' >= alphaMin)
    /\ (~running /\ ~running') =>
          /\ alpha' = alpha
          /\ \A n \in DOMAIN pos : pos'[n].x = pos[n].x /\ pos'[n].y = pos[n].y

\* C7: when no drag is active (alphaTarget is 0) alpha strictly decreases on every
\* tick until it falls below the stop threshold; ticking then halts, and nothing
\* changes alpha or the positions until some operation restarts the simulation
C7_Cooling == [][C7_Step]_vars

\* the simulation has cooled below alphaMin by itself and its timer has stopped,
\* with a node that the ticks have moved
C7_Witness ==
    /\ pc = "ready"
    /\ ~running
    /\ ~isPaused
    /\ alphaTarget = 0
    /\ alpha > 0
    /\ alpha < alphaMin
    /\ \E n \in DOMAIN pos : pos[n].x # 0 /\ pos[n].fx = NoCoord

(***************************************************************************)
(* SpecLayout: layout files imported into a graph of up to SimNodes nodes. *)
(***************************************************************************)
InitLayout == Constructed(SimpleGraphs(SimNodes), {configMaxNodes}, {})

NextLayout ==
    \/ Load(Coord)
    \/ \E layout \in Layouts(1..(SimNodes + 1), Coord, MaxLayoutEntries) : ApplyLayout(layout)
    \/ RestartSimulation
    \/ TogglePause
    \/ \E value \in {toString(0)} : FilterByDegree(value)

SpecLayout == InitLayout /\ [][NextLayout]_vars

\* a payload that is corrupt: no JSON, no object, without nodes or links, or with a
\* null among its node entries
Corrupt(layout) ==
    \/ layout.kind # "object"
    \/ ~layout.hasNodes
    \/ ~layout.hasLinks
    \/ \E i \in DOMAIN layout.nodes : layout.nodes[i] = NullEntry

\* what node n holds once every entry of the payload is applied: the values of the
\* last entry that names it, or what it held
AppliedTo(layout, n) ==
    LET mine == {i \in DOMAIN layout.nodes : layout.nodes[i].id = n}
    IN  IF mine = {} THEN pos[n]
        ELSE LET e == layout.nodes[CHOOSE i \in mine : \A j \in mine : j <= i]
             IN  [x |-> e.x, y |-> e.y, fx |-> e.fx, fy |-> e.fy]

\* C8: an import applies completely or not at all: unknown ids are skipped
\* without error, and a corrupt payload changes no node's x, y, fx or fy and leaves
\* alpha alone
C8_AsClaimed ==
    [][\A layout \in Layouts(1..(SimNodes + 1), Coord, MaxLayoutEntries) :
          ApplyLayout(layout) =>
              IF Corrupt(layout)
              THEN pos' = pos /\ alpha' = alpha
              ELSE /\ outcome' = "ok"
                   /\ alpha' = layoutAlpha
                   /\ \A n \in DOMAIN pos :
                         pos'[n] = IF n \in Range(filteredData.nodes)
                                   THEN AppliedTo(layout, n) ELSE pos[n]]_vars

(***************************************************************************)
(* SpecDrag: drags by up to MaxGestures pointers at once on a graph of up  *)
(* to DragNodes nodes, interleaved with restart, filter, parameter change  *)
(* and layout import.                                                      *)
(***************************************************************************)
InitDrag == Constructed(SimpleGraphs(DragNodes), {configMaxNodes}, 1..MaxGestures)

NextDrag ==
    \/ Load({0})
    \/ \E g \in 1..MaxGestures : \E i \in DOMAIN nodeElems : DragStart(g, i)
    \/ \E g \in 1..MaxGestures : \E ex, ey \in Coord : Drag(g, ex, ey)
    \/ \E g \in 1..MaxGestures : DragEnd(g)
    \/ RestartSimulation
    \/ UpdateForceParameters
    \/ \E value \in {toString(0), toString(1)} : FilterByDegree(value)
    \/ \E layout \in Layouts(1..DragNodes, {0}, 1) : ApplyLayout(layout)

SpecDrag == InitDrag /\ [][NextDrag]_vars

\* the pointers with a gesture in progress
ActiveGestures == {g \in DOMAIN gestures : gestures[g] # NoGesture}

\* C10: while at least one drag gesture is active alphaTarget is nonzero and every
\* dragged node has fx and fy set, and a drag end that leaves no gesture active
\* leaves alphaTarget 0 and the released node's fx and fy cleared
C10_AsClaimed ==
    /\ [](pc = "ready" =>
            (ActiveGestures # {} =>
                /\ alphaTarget # 0
                /\ \A g \in ActiveGestures :
                      /\ pos[gestures[g].node].fx # NoCoord
                      /\ pos[gestures[g].node].fy # NoCoord))
    /\ [][\A g \in 1..MaxGestures :
            (DragEnd(g) /\ ActiveGestures' = {}) =>
                /\ alphaTarget' = 0
                /\ pos'[gestures[g].node].fx = NoCoord
                /\ pos'[gestures[g].node].fy = NoCoord]_vars

(***************************************************************************)
(* The pause flag against the simulation's timer, checked under SpecCool.  *)
(***************************************************************************)
\* C11: isPaused is true exactly when the user has stopped the simulation: while
\* isPaused is true the timer is stopped and no tick happens, whatever operation
\* other than togglePause is called
C11_AsClaimed ==
    /\ []((pc = "ready" /\ isPaused) => ~running)
    /\ [][isPaused => ~Tick(Coord)]_vars

(***************************************************************************)
(* The highlighted marker against currentHighlighted, checked under        *)
(* SpecFocus.                                                              *)
(***************************************************************************)
\* C12: the .node elements that carry the highlighted marker are bound to the node
\* in currentHighlighted and to no other node, and none carries it when
\* currentHighlighted is null
C12_AsClaimed ==
    pc = "ready" =>
        \A i \in DOMAIN nodeElems :
            nodeElems[i].highlighted =>
                /\ currentHighlighted # NoNode
                /\ nodeElems[i].d = currentHighlighted

====
